---- MODULE Spec2Model ----
(***************************************************************************)
(* paste-html-to-govspeak: src/src/html-to-govspeak.js.                    *)
(*                                                                         *)
(* A string is a sequence of one-character strings (<<"#", "#", " ">>);   *)
(* the token NBSP stands for the one character U+00A0.                     *)
(*                                                                         *)
(* The service is a TurndownService (turndown ^6.0.0, package.json).  What *)
(* the module takes from turndown is quoted where it is modelled:          *)
(*                                                                         *)
(*   turndown(input):  if (input === '') return ''                         *)
(*                     output = process.call(this, new RootNode(input))    *)
(*                     return postProcess.call(this, output)               *)
(*   process(parent):  reduce over parent.childNodes of                    *)
(*                       join(output, replacement), the replacement being  *)
(*                       escape(nodeValue) for a text node and             *)
(*                       replacementForNode(node) for an element           *)
(*   replacementForNode(node):                                             *)
(*                     rule = this.rules.forNode(node)                     *)
(*                     content = process.call(this, node)                  *)
(*                     whitespace = node.flankingWhitespace                *)
(*                     if (whitespace.leading || whitespace.trailing)      *)
(*                       content = content.trim()                          *)
(*                     return whitespace.leading +                         *)
(*                       rule.replacement(content, node, this.options) +   *)
(*                       whitespace.trailing                               *)
(*   postProcess(output):                                                  *)
(*                     this.rules.forEach(rule => if rule.append is a      *)
(*                       function: output = join(output, rule.append()))   *)
(*                     return output.replace(/^[\t\r\n]+/, '')             *)
(*                                  .replace(/[\t\r\n\s]+$/, '')           *)
(*   Rules.add(key, rule):  this.array.unshift(rule)                       *)
(*   Rules.forNode(node):   if (node.isBlank) return this.blankRule        *)
(*                     then the first match in this.array, in this._keep,  *)
(*                     in this._remove, else this.defaultRule              *)
(***************************************************************************)
EXTENDS Naturals, Sequences, FiniteSets

VARIABLES pc, html, govspeak, references, result, ctx

vars == <<pc, html, govspeak, references, result, ctx>>

\* ------------------------------------------------------------ bounds
\* Pieces of an intermediate text handed to the post-processing functions.
MaxChunks == 5
\* Characters of a heading's text.
MaxText == 2
\* abbr elements of a paragraph.
MaxAbbrs == 2
\* Children of a list.
MaxItems == 3
\* Blocks of a pasted plain-text document.
MaxBlocks == 2
\* Characters of a list item's converted content.
MaxContent == 4

\* ------------------------------------------------------------ characters
NL == "\n"
SP == " "
NBSP == "&nbsp;"

\* JavaScript's \s and String.prototype.trim, over the characters modelled.
Whitespace == {SP, NL, NBSP}

\* JavaScript's \d.
Digit == {"0", "1", "2", "3", "4", "5", "6", "7", "8", "9"}

\* ------------------------------------------------------------ string helpers
\* Length of the longest prefix of s made of characters of C (a greedy ^[C]*).
LeadingCount(s, C) ==
  CHOOSE k \in 0..Len(s) :
    /\ \A i \in 1..k : s[i] \in C
    /\ k < Len(s) => s[k + 1] \notin C

\* Length of the longest suffix of s made of characters of C (a greedy [C]*$).
TrailingCount(s, C) ==
  CHOOSE k \in 0..Len(s) :
    /\ \A i \in (Len(s) - k + 1)..Len(s) : s[i] \in C
    /\ k < Len(s) => s[Len(s) - k] \notin C

DropLeading(s, C) == SubSeq(s, LeadingCount(s, C) + 1, Len(s))

DropTrailing(s, C) == SubSeq(s, 1, Len(s) - TrailingCount(s, C))

\* String.prototype.trim
Trim(s) == DropTrailing(DropLeading(s, Whitespace), Whitespace)

\* s.substr(i, Len(t)) === t
MatchAt(s, i, t) ==
  /\ i >= 1
  /\ i + Len(t) - 1 <= Len(s)
  /\ \A j \in 1..Len(t) : s[i + j - 1] = t[j]

\* ------------------------------------------------------------ post-processing
\* service.options.br: turndown's default line-break marker, two spaces.
Br == <<SP, SP>>

BrLine == Br \o <<NL>>

\* Number of consecutive BrLine groups starting at position i: the greedy (br\n)+.
RECURSIVE BrGroups(_, _)
BrGroups(s, i) ==
  IF MatchAt(s, i, BrLine) THEN 1 + BrGroups(s, i + Len(BrLine)) ELSE 0

\* govspeak.replace(/\n(  \n)+\n?/g, '\n'), scanning from position i.
RECURSIVE RemoveBrFrom(_, _)
RemoveBrFrom(s, i) ==
  IF i > Len(s) THEN <<>>
  ELSE IF s[i] = NL /\ BrGroups(s, i + 1) > 0
       THEN LET afterGroups == i + 1 + BrGroups(s, i + 1) * Len(BrLine)
                next == IF afterGroups <= Len(s) /\ s[afterGroups] = NL
                        THEN afterGroups + 1 ELSE afterGroups
            IN  <<NL>> \o RemoveBrFrom(s, next)
       ELSE <<s[i]>> \o RemoveBrFrom(s, i + 1)

removeBrParagraphs(s) == RemoveBrFrom(s, 1)

\* Whether /\d\.\s(#{2,3})/ matches at position i.
HeadingInListAt(s, i) ==
  /\ i + 4 <= Len(s)
  /\ s[i] \in Digit
  /\ s[i + 1] = "."
  /\ s[i + 2] \in Whitespace
  /\ s[i + 3] = "#"
  /\ s[i + 4] = "#"

\* Length of the greedy #{2,3} of a match at position i.
HashesAt(s, i) == IF i + 5 <= Len(s) /\ s[i + 5] = "#" THEN 3 ELSE 2

\* govspeak.replace(/\d\.\s(#{2,3})/g, '$1'), scanning from position i.
RECURSIVE ExtractFrom(_, _)
ExtractFrom(s, i) ==
  IF i > Len(s) THEN <<>>
  ELSE IF HeadingInListAt(s, i)
       THEN SubSeq(s, i + 3, i + 2 + HashesAt(s, i))
              \o ExtractFrom(s, i + 3 + HashesAt(s, i))
       ELSE <<s[i]>> \o ExtractFrom(s, i + 1)

extractHeadingsFromLists(s) == ExtractFrom(s, 1)

postProcess_brFirst(s) == Trim(extractHeadingsFromLists(removeBrParagraphs(s)))

postProcess(s) == Trim(removeBrParagraphs(extractHeadingsFromLists(s)))

\* ------------------------------------------------------------ DOM
\* getAttribute's null, told apart from every string (whose elements are characters).
Null == <<"null">>

\* String concatenation's conversion of a value: null becomes the text "null".
StringOf(v) == IF v = Null THEN <<"n", "u", "l", "l">> ELSE v

\* JavaScript truthiness of an attribute value: null and "" are falsy.
Truthy(v) == v # Null /\ v # <<>>

NoAttrs == [href |-> Null, title |-> Null]

\* A text node (nodeType 3).
Txt(v) == [name |-> "#text", attrs |-> NoAttrs, value |-> v, children |-> <<>>]

\* An element (nodeType 1); names are kept in lower case.
El(name, children) ==
  [name |-> name, attrs |-> NoAttrs, value |-> <<>>, children |-> children]

ElA(name, attrs, children) ==
  [name |-> name, attrs |-> attrs, value |-> <<>>, children |-> children]

IsElement(n) == n.name # "#text"

\* turndown's root: the input wrapped in <x-turndown id="turndown-root">.
Root(children) == El("x-turndown", children)

\* turndown's blockElements.
blockElements ==
  {"address", "article", "aside", "audio", "blockquote", "body", "canvas",
   "center", "dd", "dir", "div", "dl", "dt", "fieldset", "figcaption", "figure",
   "footer", "form", "frameset", "h1", "h2", "h3", "h4", "h5", "h6", "header",
   "hgroup", "hr", "html", "isindex", "li", "main", "menu", "nav", "noframes",
   "noscript", "ol", "output", "p", "pre", "section", "table", "tbody", "td",
   "tfoot", "th", "thead", "tr", "ul"}

\* turndown's voidElements.
voidElements ==
  {"area", "base", "br", "col", "command", "embed", "hr", "img", "input",
   "keygen", "link", "meta", "param", "source", "track", "wbr"}

elementsToRemove ==
  {"title", "script", "noscript", "style", "video", "audio", "object", "iframe"}

isBlock(n) == n.name \in blockElements

isVoid(n) == n.name \in voidElements

RECURSIVE textContent(_)
RECURSIVE TextOfChildren(_, _)
\* node.textContent: the concatenation of the descendant text nodes.
textContent(n) ==
  IF n.name = "#text" THEN n.value ELSE TextOfChildren(n.children, 1)

TextOfChildren(cs, i) ==
  IF i > Len(cs) THEN <<>> ELSE textContent(cs[i]) \o TextOfChildren(cs, i + 1)

RECURSIVE hasVoid(_)
\* node.querySelector(voidElements): some descendant is a void element.
hasVoid(n) ==
  \E i \in 1..Len(n.children) : isVoid(n.children[i]) \/ hasVoid(n.children[i])

\* /^\s*$/.test(s)
AllWhitespace(s) == \A i \in 1..Len(s) : s[i] \in Whitespace

\* turndown's isBlank:
\*   ['A', 'TH', 'TD', 'IFRAME', 'SCRIPT', 'AUDIO', 'VIDEO'].indexOf(node.nodeName) === -1
\*     && /^\s*$/i.test(node.textContent) && !isVoid(node) && !hasVoid(node)
isBlank(n) ==
  /\ n.name \notin {"a", "th", "td", "iframe", "script", "audio", "video"}
  /\ AllWhitespace(textContent(n))
  /\ ~isVoid(n)
  /\ ~hasVoid(n)

\* Index of the nearest element sibling before child i of parent, 0 when none.
PreviousElementIndex(parent, i) ==
  LET S == {j \in 1..(i - 1) : IsElement(parent.children[j])}
  IN  IF S = {} THEN 0 ELSE CHOOSE j \in S : \A k \in S : k <= j

\* Index of the last element child of parent, 0 when none.
LastElementIndex(parent) == PreviousElementIndex(parent, Len(parent.children) + 1)

\* turndown's isFlankedByWhitespace(side, node): the sibling on that side is a
\* text node, or an element that is not a block, whose text matches / $/ (left)
\* or /^ / (right).
isFlankedByWhitespace(side, parent, i) ==
  LET j == IF side = "left" THEN i - 1 ELSE i + 1
  IN  /\ j \in 1..Len(parent.children)
      /\ LET sib == parent.children[j]
             t == textContent(sib)
         IN  /\ ~IsElement(sib) \/ ~isBlock(sib)
             /\ t # <<>>
             /\ IF side = "left" THEN t[Len(t)] = SP ELSE t[1] = SP

\* turndown's flankingWhitespace(node), for a node that is not a block:
\*   hasLeading = /^\s/.test(node.textContent); hasTrailing = /\s$/.test(...)
\*   blankWithSpaces = node.isBlank && hasLeading && hasTrailing
\*   if (hasLeading && !isFlankedByWhitespace('left', node)) leading = ' '
\*   if (!blankWithSpaces && hasTrailing && !isFlankedByWhitespace('right', node))
\*     trailing = ' '
flankingWhitespace(parent, i) ==
  LET n == parent.children[i]
      t == textContent(n)
      hasLeading == t # <<>> /\ t[1] \in Whitespace
      hasTrailing == t # <<>> /\ t[Len(t)] \in Whitespace
      blankWithSpaces == isBlank(n) /\ hasLeading /\ hasTrailing
  IN  IF isBlock(n) THEN [leading |-> <<>>, trailing |-> <<>>]
      ELSE [leading |->
              IF hasLeading /\ ~isFlankedByWhitespace("left", parent, i)
              THEN <<SP>> ELSE <<>>,
            trailing |->
              IF ~blankWithSpaces /\ hasTrailing
                 /\ ~isFlankedByWhitespace("right", parent, i)
              THEN <<SP>> ELSE <<>>]

\* ------------------------------------------------------------ options
bulletListMarker == <<"-">>

listIndent == <<SP, SP, SP>>

\* ------------------------------------------------------------ rules
Headings == {"h1", "h2", "h3", "h4", "h5", "h6"}

\* Rules.forNode: the blank rule, then the added rules, latest first, then the
\* CommonMark rules, then the remove rules, then the default rule.
RuleFor(parent, i) ==
  LET n == parent.children[i]
      pe == PreviousElementIndex(parent, i)
      prevText == IF i > 1 THEN textContent(parent.children[i - 1]) ELSE <<>>
  IN  CASE isBlank(n) -> "blank"
        [] n.name = "li" -> "listItems"
        [] n.name \in {"ul", "ol"} /\ pe > 0 /\ parent.children[pe].name = "li"
             -> "invalidNestedLists"
        [] n.name = "a" /\ i > 1
             /\ MatchAt(prevText, Len(prevText) - 1, <<"]", "(">>)
             -> "cleanUpNestedLinks"
        [] n.name = "p" /\ parent.name = "li" -> "stripParagraphsInListItems"
        [] n.name = "p" /\ Trim(textContent(n)) = <<>> -> "removeEmptyParagraphs"
        [] n.name \in {"i", "em"} -> "italic"
        [] n.name \in {"b", "strong"} -> "bold"
        [] n.name = "img" -> "img"
        [] n.name \in Headings -> "heading"
        [] n.name = "abbr" /\ Truthy(n.attrs.title) -> "abbr"
        [] n.name = "a" /\ Truthy(n.attrs.href) -> "link"
        [] n.name = "p" -> "paragraph"
        [] n.name = "br" -> "lineBreak"
        [] n.name \in {"ul", "ol"} -> "list"
        [] n.name \in elementsToRemove -> "remove"
        [] OTHER -> "default"

\* blankReplacement
blankReplacement(parent, i) ==
  LET n == parent.children[i]
      t == textContent(n)
      hasWhitespace == \E k \in 1..Len(t) : t[k] \in Whitespace
      fw == flankingWhitespace(parent, i)
      hasFlanking == fw.trailing # <<>> \/ fw.leading # <<>>
  IN  IF isBlock(n) THEN <<NL, NL>>
      ELSE IF hasWhitespace /\ ~hasFlanking THEN <<SP>> ELSE <<>>

linkReplacement_noEmptyCheck(content, n) ==
  <<"[">> \o content \o <<"]", "(">> \o StringOf(n.attrs.href) \o <<")">>

\* The 'link' rule's replacement.
linkReplacement(content, n) ==
  IF Trim(content) = <<>> THEN <<>>
  ELSE <<"[">> \o content \o <<"]", "(">> \o StringOf(n.attrs.href) \o <<")">>

headingPrefix_h3AsLevel2(name) ==
  IF name \in {"h1", "h2", "h3"} THEN <<"#", "#", SP>>
  ELSE IF name \in {"h4", "h5"} THEN <<"#", "#", "#", SP>>
  ELSE <<>>

\* The 'heading' rule's prefix, from node.nodeName.charAt(1).
headingPrefix(name) ==
  IF name \in {"h1", "h2"} THEN <<"#", "#", SP>>
  ELSE IF name \in {"h3", "h4", "h5"} THEN <<"#", "#", "#", SP>>
  ELSE <<>>

headingReplacement(content, n) ==
  <<NL, NL>> \o headingPrefix(n.name) \o content \o <<NL, NL>>

\* s.replace(/\n/gm, '\n' + listIndent)
RECURSIVE IndentFrom(_, _)
IndentFrom(s, i) ==
  IF i > Len(s) THEN <<>>
  ELSE IF s[i] = NL THEN <<NL>> \o listIndent \o IndentFrom(s, i + 1)
       ELSE <<s[i]>> \o IndentFrom(s, i + 1)

Indent(s) == IndentFrom(s, 1)

\* s.replace(/\n+$/, '\n')
SingleTrailingNewline(s) ==
  IF TrailingCount(s, {NL}) > 0 THEN DropTrailing(s, {NL}) \o <<NL>> ELSE s

\* The 'invalidNestedLists' rule's replacement.
invalidNestedListsReplacement(content) ==
  listIndent \o Indent(DropTrailing(DropLeading(content, {NL}), {NL})) \o <<NL>>

\* Decimal digits of a positive number: (index + 1).toString().
RECURSIVE NumberToString(_)
NumberToString(k) ==
  LET d == <<"0", "1", "2", "3", "4", "5", "6", "7", "8", "9">>
  IN  IF k < 10 THEN <<d[k + 1]>> ELSE NumberToString(k \div 10) \o <<d[(k % 10) + 1]>>

\* Position of child i among parent.children (the element children) named li,
\* counted from 0: indexOf in the filtered list.
liIndex_allChildren(parent, i) == i - 1

liIndex(parent, i) ==
  Cardinality({j \in 1..(i - 1) : parent.children[j].name = "li"})

\* The content of the 'listItems' rule after its three replaces.
listItemsContent_stripTrailing(content) ==
  Indent(DropTrailing(DropLeading(content, {NL}), {NL}))

listItemsContent(content) ==
  Indent(SingleTrailingNewline(DropLeading(content, {NL})))

\* The 'listItems' rule's replacement, given the parent's name, the index of the
\* item among the parent's li children and whether node.nextSibling exists.
listItemsReplacement(content, parentName, index, hasNext) ==
  LET c == listItemsContent(content)
      prefix == IF parentName = "ol" THEN NumberToString(index + 1) \o <<".", SP>>
                ELSE bulletListMarker \o <<SP>>
  IN  prefix \o c
        \o (IF hasNext /\ ~(c # <<>> /\ c[Len(c)] = NL) THEN <<NL>> ELSE <<>>)

\* The CommonMark 'list' rule's replacement:
\*   parent.nodeName === 'LI' && parent.lastElementChild === node
\*     ? '\n' + content : '\n\n' + content + '\n\n'
listReplacement(content, parent, i) ==
  IF parent.name = "li" /\ LastElementIndex(parent) = i
  THEN <<NL>> \o content
  ELSE <<NL, NL>> \o content \o <<NL, NL>>

\* rule.replacement(content, node, options) of the rule chosen for the node. Of
\* turndown's own rules: paragraph gives '\n\n' + content + '\n\n', lineBreak gives
\* options.br + '\n', a remove rule gives '', and the default rule gives the
\* content, between blank lines for a block.
Replacement(rule, content, parent, i) ==
  LET n == parent.children[i]
  IN  CASE rule = "blank" -> blankReplacement(parent, i)
        [] rule = "listItems" ->
             listItemsReplacement(content, parent.name, liIndex(parent, i),
                                  i < Len(parent.children))
        [] rule = "invalidNestedLists" -> invalidNestedListsReplacement(content)
        [] rule = "cleanUpNestedLinks" -> StringOf(n.attrs.href)
        [] rule = "stripParagraphsInListItems" -> content
        [] rule = "removeEmptyParagraphs" -> <<>>
        [] rule = "italic" -> content
        [] rule = "bold" -> content
        [] rule = "img" -> <<>>
        [] rule = "heading" -> headingReplacement(content, n)
        [] rule = "abbr" -> content
        [] rule = "link" -> linkReplacement(content, n)
        [] rule = "paragraph" -> <<NL, NL>> \o content \o <<NL, NL>>
        [] rule = "lineBreak" -> Br \o <<NL>>
        [] rule = "list" -> listReplacement(content, parent, i)
        [] rule = "remove" -> <<>>
        [] OTHER -> IF isBlock(n) THEN <<NL, NL>> \o content \o <<NL, NL>>
                    ELSE content

\* ------------------------------------------------------------ traversal
\* turndown's join(string1, string2): the line breaks at the end of string1 and
\* at the start of string2 are replaced by the longer of the two runs, cut to two.
join(string1, string2) ==
  LET t == TrailingCount(string1, {NL})
      l == LeadingCount(string2, {NL})
      m == IF t > l THEN t ELSE l
      separator == IF m = 0 THEN <<>> ELSE IF m = 1 THEN <<NL>> ELSE <<NL, NL>>
  IN  DropTrailing(string1, {NL}) \o separator \o DropLeading(string2, {NL})

\* turndown's default escape of a text node, as far as the characters modelled:
\* a backslash before a heading marker at the start and before every "[" and "]".
RECURSIVE EscapeBrackets(_, _)
EscapeBrackets(string, i) ==
  IF i > Len(string) THEN <<>>
  ELSE (IF string[i] \in {"[", "]"} THEN <<"\\", string[i]>> ELSE <<string[i]>>)
         \o EscapeBrackets(string, i + 1)

escape_default(string) ==
  LET h == LeadingCount(string, {"#"})
      marker == h \in 1..6 /\ h < Len(string) /\ string[h + 1] = SP
  IN  (IF marker THEN <<"\\">> ELSE <<>>) \o EscapeBrackets(string, 1)

\* service.escape, replaced by the identity.
escape(string) == string

RECURSIVE process(_)
RECURSIVE ProcessFrom(_, _, _)
RECURSIVE contentOf(_, _)
RECURSIVE replacementForNode(_, _)

\* turndown's process(parentNode): the children's replacements, joined in order.
process(parent) == ProcessFrom(parent, 1, <<>>)

ProcessFrom(parent, i, output) ==
  IF i > Len(parent.children) THEN output
  ELSE LET n == parent.children[i]
           replacement == IF IsElement(n) THEN replacementForNode(parent, i)
                          ELSE escape(n.value)
       IN  ProcessFrom(parent, i + 1, join(output, replacement))

\* The content handed to the rule of child i: its converted children, trimmed
\* when the node has flanking whitespace.
contentOf(parent, i) ==
  LET fw == flankingWhitespace(parent, i)
      content == process(parent.children[i])
  IN  IF fw.leading # <<>> \/ fw.trailing # <<>> THEN Trim(content) ELSE content

\* turndown's replacementForNode(node).
replacementForNode(parent, i) ==
  LET fw == flankingWhitespace(parent, i)
  IN  fw.leading
        \o Replacement(RuleFor(parent, i), contentOf(parent, i), parent, i)
        \o fw.trailing

\* ------------------------------------------------------------ the abbr rule
\* this.references is a plain object: a sequence of <<key, value>> own properties
\* in the order of their creation.
NoReferences == <<>>

HasProperty(obj, k) == \E j \in 1..Len(obj) : obj[j][1] = k

\* obj[k] = v: an existing property keeps its place, a new one is added last.
SetProperty(obj, k, v) ==
  IF HasProperty(obj, k)
  THEN [j \in 1..Len(obj) |-> IF obj[j][1] = k THEN <<k, v>> ELSE obj[j]]
  ELSE Append(obj, <<k, v>>)

GetProperty(obj, k) == (CHOOSE j \in 1..Len(obj) : obj[j][1] = k) 

RECURSIVE NumberValue(_)
NumberValue(k) ==
  IF k = <<>> THEN 0
  ELSE 10 * NumberValue(SubSeq(k, 1, Len(k) - 1))
         + (CHOOSE d \in 0..9 : NumberToString(d) = <<k[Len(k)]>>)

\* An array index: a canonical numeric string below 2^32 - 1. Every number of
\* at most nine digits is; the keys of the model are far shorter.
IsArrayIndex(k) ==
  /\ k # <<>>
  /\ \A j \in 1..Len(k) : k[j] \in Digit
  /\ Len(k) > 1 => k[1] # "0"
  /\ Len(k) <= 9

RECURSIVE AscendingKeys(_)
AscendingKeys(S) ==
  IF S = {} THEN <<>>
  ELSE LET m == CHOOSE x \in S : \A y \in S : NumberValue(x) <= NumberValue(y)
       IN  <<m>> \o AscendingKeys(S \ {m})

RECURSIVE KeysFrom(_, _)
KeysFrom(obj, j) ==
  IF j > Len(obj) THEN <<>>
  ELSE (IF IsArrayIndex(obj[j][1]) THEN <<>> ELSE <<obj[j][1]>>) \o KeysFrom(obj, j + 1)

\* for...in and Object.keys: the array-index keys in ascending numeric order,
\* then the other keys in the order of their creation.
OwnKeys(obj) ==
  AscendingKeys({obj[j][1] : j \in {i \in 1..Len(obj) : IsArrayIndex(obj[i][1])}})
    \o KeysFrom(obj, 1)

RECURSIVE abbrRecords(_, _)
RECURSIVE RecordsFrom(_, _)
\* The <<content, title>> pairs the 'abbr' replacement is called with while child i
\* of parent is converted: descendants first, in document order, then the node.
abbrRecords(parent, i) ==
  LET n == parent.children[i]
  IN  RecordsFrom(n, 1)
        \o (IF IsElement(n) /\ RuleFor(parent, i) = "abbr"
            THEN <<(<<contentOf(parent, i), n.attrs.title>>)>> ELSE <<>>)

RecordsFrom(parent, i) ==
  IF i > Len(parent.children) THEN <<>>
  ELSE abbrRecords(parent, i) \o RecordsFrom(parent, i + 1)

\* this.references[content] = title, for each record in turn.
RECURSIVE Record(_, _, _)
Record(obj, records, j) ==
  IF j > Len(records) THEN obj
  ELSE Record(SetProperty(obj, records[j][1], records[j][2]), records, j + 1)

RECURSIVE ReferenceLines(_, _, _)
ReferenceLines(obj, keys, j) ==
  IF j > Len(keys) THEN <<>>
  ELSE <<"*", "[">> \o keys[j] \o <<"]", ":", SP>>
         \o obj[GetProperty(obj, keys[j])][2] \o <<NL>>
         \o ReferenceLines(obj, keys, j + 1)

\* The text the 'abbr' rule's append returns.
abbrAppend(obj) ==
  IF Len(OwnKeys(obj)) = 0 THEN <<>>
  ELSE <<NL, NL>> \o ReferenceLines(obj, OwnKeys(obj), 1)

\* this.references after append: unchanged on the early return, else reset.
referencesAfterAppend_kept(obj) == obj

referencesAfterAppend(obj) == IF Len(OwnKeys(obj)) = 0 THEN obj ELSE NoReferences

\* ------------------------------------------------------------ turndown
\* turndown's collapseWhitespace on a lone text node: runs of spaces and line
\* breaks become one space, and the space at either end of the root is dropped.
RECURSIVE CollapseFrom(_, _)
CollapseFrom(s, i) ==
  IF i > Len(s) THEN <<>>
  ELSE IF s[i] \in {SP, NL}
       THEN (IF i > 1 /\ s[i - 1] \in {SP, NL} THEN <<>> ELSE <<SP>>)
              \o CollapseFrom(s, i + 1)
       ELSE <<s[i]>> \o CollapseFrom(s, i + 1)

collapseWhitespace(s) ==
  LET c == CollapseFrom(s, 1)
      a == IF c # <<>> /\ c[1] = SP THEN Tail(c) ELSE c
  IN  IF a # <<>> /\ a[Len(a)] = SP THEN SubSeq(a, 1, Len(a) - 1) ELSE a

\* An input of htmlToGovspeak: a parsed tree, or markup with no tag in it.
Dom(root) == [kind |-> "dom", root |-> root, text |-> <<>>]

Text(s) == [kind |-> "text", root |-> Root(<<>>), text |-> s]

NoInput == [kind |-> "none", root |-> Root(<<>>), text |-> <<>>]

\* turndown's RootNode(input).
RootNode(input) ==
  IF input.kind = "text"
  THEN LET t == collapseWhitespace(input.text)
       IN  Root(IF t = <<>> THEN <<>> ELSE <<Txt(t)>>)
  ELSE input.root

\* turndown's postProcess(output), given the text the rules' append returned.
turndownPostProcess(output, appended) ==
  DropTrailing(DropLeading(join(output, appended), {NL}), Whitespace)

\* ------------------------------------------------------------ inputs
SeqsUpTo(S, n) == UNION {[1..k -> S] : k \in 0..n}

RECURSIVE Flatten(_)
Flatten(ss) == IF ss = <<>> THEN <<>> ELSE Head(ss) \o Flatten(Tail(ss))

\* Headings: <hN>X</hN>.
HeadingTexts == SeqsUpTo({"a", "#", NBSP}, MaxText) \ {<<>>}

HeadingDoc(h, x) == Dom(Root(<<El(h, <<Txt(x)>>)>>))

HeadingDocs == {HeadingDoc(h, x) : h \in Headings, x \in HeadingTexts}

\* Links: <p>[previous sibling]<a href="U">T</a>[next sibling]</p>.
PreviousSiblings ==
  {<<>>, <<Txt(<<"a">>)>>, <<Txt(<<"]", "(">>)>>,
   <<El("b", <<Txt(<<"a", "]", "(">>)>>)>>}

NextSiblings == {<<>>, <<Txt(<<"a">>)>>}

Hrefs == {<<>>, <<"u">>}

AnchorChildren ==
  {<<>>, <<Txt(<<"t">>)>>, <<Txt(<<NBSP>>)>>, <<Txt(<<NBSP, "t">>)>>,
   <<El("img", <<>>)>>, <<El("b", <<Txt(<<"t">>)>>)>>}

Anchor(u, cs) == ElA("a", [href |-> u, title |-> Null], cs)

LinkDoc(prev, u, cs, next) ==
  Dom(Root(<<El("p", prev \o <<Anchor(u, cs)>> \o next)>>))

LinkDocs ==
  {LinkDoc(prev, u, cs, next) :
     prev \in PreviousSiblings, u \in Hrefs, cs \in AnchorChildren,
     next \in NextSiblings}

\* Abbreviations: <p><abbr title="T">X</abbr> <abbr ...>...</abbr></p>.
AbbrTexts == {<<"a">>, <<"1">>, <<"2">>}

AbbrTitles == {Null, <<"s">>, <<"t">>}

Abbr(x, t) == ElA("abbr", [href |-> Null, title |-> t], <<Txt(x)>>)

RECURSIVE AbbrChildren(_)
AbbrChildren(as) ==
  IF as = <<>> THEN <<>>
  ELSE <<Abbr(as[1][1], as[1][2])>>
         \o (IF Len(as) > 1 THEN <<Txt(<<SP>>)>> ELSE <<>>)
         \o AbbrChildren(Tail(as))

AbbrDoc(as) == Dom(Root(<<El("p", AbbrChildren(as))>>))

AbbrDocs == {AbbrDoc(as) : as \in SeqsUpTo(AbbrTexts \X AbbrTitles, MaxAbbrs) \ {<<>>}}

\* Stripped elements: <p>a</p><E>content</E>.
RemovedContents ==
  {<<Txt(<<"x">>)>>} \cup
  {<<Abbr(x, t)>> : x \in AbbrTexts, t \in AbbrTitles \ {Null}}

\* The stripped elements whose content is parsed as markup; the others hold text.
RemovedWithMarkup == {"noscript", "video", "audio", "object"}

RemovedDoc(e, cs) == Dom(Root(<<El("p", <<Txt(<<"a">>)>>), El(e, cs)>>))

RemovedDocs ==
  {RemovedDoc(e, cs) : e \in elementsToRemove, cs \in {<<Txt(<<"x">>)>>}} \cup
  {RemovedDoc(e, cs) : e \in RemovedWithMarkup, cs \in RemovedContents}

\* Lists: <ol> or <ul> with li children and the siblings found among them.
ListChildren ==
  {El("li", <<Txt(<<"a">>)>>),
   El("li", <<El("h2", <<Txt(<<"a">>)>>)>>),
   El("li", <<>>),
   El("script", <<Txt(<<"x">>)>>),
   El("ul", <<El("li", <<Txt(<<"b">>)>>)>>)}

ListDoc(l, cs) == Dom(Root(<<El(l, cs)>>))

ListDocs ==
  {ListDoc(l, cs) : l \in {"ol", "ul"}, cs \in SeqsUpTo(ListChildren, MaxItems) \ {<<>>}}

\* Pasted plain text in the target dialect: blocks separated by a blank line.
PlainBlocks ==
  {<<"a">>, <<"#", "#", SP, "a">>, <<"#", "#", "#", SP, "a">>,
   <<"[", "a", "]", "(", "u", ")">>, <<"a", SP, "[", "a", "]", "(", "u", ")">>}

RECURSIVE JoinBlocks(_)
JoinBlocks(bs) ==
  IF Len(bs) = 1 THEN bs[1] ELSE bs[1] \o <<NL, NL>> \o JoinBlocks(Tail(bs))

PlainTexts == {JoinBlocks(bs) : bs \in SeqsUpTo(PlainBlocks, MaxBlocks) \ {<<>>}}

PlainDocs == {Text(d) : d \in PlainTexts}

Inputs == HeadingDocs \cup LinkDocs \cup AbbrDocs \cup RemovedDocs \cup ListDocs \cup PlainDocs

\* ------------------------------------------------------------ htmlToGovspeak
NoCtx == [parentName |-> "", index |-> 0, hasNext |-> FALSE]

Init ==
  /\ pc = "idle"
  /\ html = NoInput
  /\ govspeak = <<>>
  /\ references = NoReferences
  /\ result = <<>>
  /\ ctx = NoCtx

\* htmlToGovspeak(html) up to the end of turndown's traversal: every node's rule
\* has run, the 'abbr' rule has recorded into this.references.
Call(input) ==
  /\ pc = "idle"
  /\ ~(input.kind = "text" /\ input.text = <<>>)
  /\ html' = input
  /\ govspeak' = process(RootNode(input))
  /\ references' = Record(references, RecordsFrom(RootNode(input), 1), 1)
  /\ pc' = "turndown"
  /\ UNCHANGED <<result, ctx>>

\* service.turndown(''): turndown returns '' at once, no rule runs.
CallEmpty ==
  /\ pc = "idle"
  /\ html' = Text(<<>>)
  /\ govspeak' = <<>>
  /\ pc' = "postProcess"
  /\ UNCHANGED <<references, result, ctx>>

\* turndown's postProcess: the rules' append, then the outer line breaks dropped.
RunAppend ==
  /\ pc = "turndown"
  /\ govspeak' = turndownPostProcess(govspeak, abbrAppend(references))
  /\ references' = referencesAfterAppend(references)
  /\ pc' = "postProcess"
  /\ UNCHANGED <<html, result, ctx>>

\* postProcess(govspeak)
PostProcess ==
  /\ pc = "postProcess"
  /\ result' = postProcess(govspeak)
  /\ pc' = "done"
  /\ UNCHANGED <<html, govspeak, references, ctx>>

\* htmlToGovspeak returns; its locals are gone.
Return ==
  /\ pc = "done"
  /\ pc' = "idle"
  /\ html' = NoInput
  /\ govspeak' = <<>>
  /\ result' = <<>>
  /\ UNCHANGED <<references, ctx>>

Next ==
  \/ \E input \in Inputs : Call(input)
  \/ CallEmpty
  \/ RunAppend
  \/ PostProcess
  \/ Return

Spec == Init /\ [][Next]_vars

\* htmlToGovspeak(input) computed from an empty this.references.
Fresh(input) ==
  IF input.kind = "text" /\ input.text = <<>> THEN <<>>
  ELSE postProcess(turndownPostProcess(
         process(RootNode(input)),
         abbrAppend(Record(NoReferences, RecordsFrom(RootNode(input), 1), 1))))

\* ------------------------------------------------------------ the text functions
\* Pieces of the intermediate texts: a list number's characters, a heading
\* marker, a line break's line, and plain text.
Chunks == {<<"1">>, <<".">>, <<SP>>, <<NL>>, <<"#", "#">>, BrLine, <<"a">>}

PostTexts == {Flatten(cs) : cs \in SeqsUpTo(Chunks, MaxChunks)}

InitPost ==
  /\ pc = "text"
  /\ html = NoInput
  /\ govspeak \in PostTexts
  /\ references = NoReferences
  /\ result = <<>>
  /\ ctx = NoCtx

\* postProcess(govspeak)
ApplyPostProcess ==
  /\ pc = "text"
  /\ result' = postProcess(govspeak)
  /\ pc' = "postProcessed"
  /\ UNCHANGED <<html, govspeak, references, ctx>>

\* extractHeadingsFromLists(govspeak)
ApplyExtractHeadings ==
  /\ pc = "text"
  /\ result' = extractHeadingsFromLists(govspeak)
  /\ pc' = "extracted"
  /\ UNCHANGED <<html, govspeak, references, ctx>>

\* removeBrParagraphs(govspeak)
ApplyRemoveBr ==
  /\ pc = "text"
  /\ result' = removeBrParagraphs(govspeak)
  /\ pc' = "brRemoved"
  /\ UNCHANGED <<html, govspeak, references, ctx>>

NextPost == ApplyPostProcess \/ ApplyExtractHeadings \/ ApplyRemoveBr

SpecPost == InitPost /\ [][NextPost]_vars

\* The converted content of a list item.
ItemContents == SeqsUpTo({"a", NL, SP}, MaxContent)

InitList ==
  /\ pc = "content"
  /\ html = NoInput
  /\ govspeak \in ItemContents
  /\ references = NoReferences
  /\ result = <<>>
  /\ ctx = NoCtx

\* The 'listItems' replacement on the content, for an li at the given index among
\* the li children of an ol or a ul, with or without a next sibling.
ApplyListItems(parentName, index, hasNext) ==
  /\ pc = "content"
  /\ ctx' = [parentName |-> parentName, index |-> index, hasNext |-> hasNext]
  /\ result' = listItemsReplacement(govspeak, parentName, index, hasNext)
  /\ pc' = "listItem"
  /\ UNCHANGED <<html, govspeak, references>>

NextList ==
  \E parentName \in {"ol", "ul"}, index \in 0..(MaxItems - 1), hasNext \in BOOLEAN :
    ApplyListItems(parentName, index, hasNext)

SpecList == InitList /\ [][NextList]_vars

\* ------------------------------------------------------------ properties
Contains(s, t) == \E i \in 1..(Len(s) + 1) : MatchAt(s, i, t)

\* The families of inputs, told apart by their shape.
FirstChild(input) == input.root.children[1]

IsHeadingDoc(input) ==
  input.kind = "dom" /\ Len(input.root.children) = 1
    /\ FirstChild(input).name \in Headings

IsListDoc(input) ==
  input.kind = "dom" /\ Len(input.root.children) = 1
    /\ FirstChild(input).name \in {"ol", "ul"}

IsParagraphDoc(input) ==
  input.kind = "dom" /\ Len(input.root.children) = 1 /\ FirstChild(input).name = "p"

IsLinkDoc(input) ==
  IsParagraphDoc(input)
    /\ \E j \in 1..Len(FirstChild(input).children) :
         FirstChild(input).children[j].name = "a"

IsAbbrDoc(input) == IsParagraphDoc(input) /\ ~IsLinkDoc(input)

IsRemovedDoc(input) == input.kind = "dom" /\ Len(input.root.children) = 2

IsPlainDoc(input) == input.kind = "text" /\ input.text # <<>>

Range(f) == {f[j] : j \in DOMAIN f}

\* The texts of the titled abbreviations converted for an input.
AbbrTextsOf(input) == {r[1] : r \in Range(RecordsFrom(RootNode(input), 1))}

\* C1: no accumulator state leaks between calls. The abbr rule's references are
\* empty when a call starts and when it returns; a returned text holds a reference
\* line only for an abbreviation of the call's own input; and the result is the
\* one the same input gives from an empty accumulator, whatever calls came before.
C1_NoLeakBetweenCalls ==
  /\ pc \in {"idle", "postProcess", "done"} => references = NoReferences
  /\ pc = "done" =>
       /\ result = Fresh(html)
       /\ \A x \in AbbrTexts :
            Contains(result, <<"*", "[">> \o x \o <<"]", ":">>) => x \in AbbrTextsOf(html)

\* A call that recorded abbreviations has returned their reference block, and the
\* accumulator is empty again.
C1_Witness ==
  /\ pc = "done"
  /\ Contains(result, <<"*", "[">>)
  /\ references = NoReferences

\* The reference block the claim describes: one line per recorded abbreviation, in
\* the order in which the abbreviations were first recorded.
FirstSeenBlock(records) ==
  LET obj == Record(NoReferences, records, 1)
      keys == [j \in 1..Len(obj) |-> obj[j][1]]
  IN  IF obj = <<>> THEN <<>>
      ELSE <<NL, NL>> \o DropTrailing(ReferenceLines(obj, keys, 1), {NL})

\* C2: each titled abbreviation is emitted as its text, and the output ends, after
\* a blank line, with one "*[X]: T" line per recorded abbreviation in first-seen
\* order, whatever the abbreviation texts are; no block without abbreviations.
C2_ReferencesInFirstSeenOrder ==
  (pc = "done" /\ IsAbbrDoc(html)) =>
    result = textContent(html.root)
               \o FirstSeenBlock(RecordsFrom(html.root, 1))

\* C3: nothing derived from the content of a stripped element reaches the output:
\* a paragraph "a" followed by a stripped element converts to "a" alone.
C3_StrippedContentAbsent ==
  (pc = "done" /\ IsRemovedDoc(html)) => result = <<"a">>

\* The marker the claim gives each heading level.
Marker(h) ==
  CASE h \in {"h1", "h2"} -> <<"#", "#", SP>>
    [] h \in {"h3", "h4", "h5"} -> <<"#", "#", "#", SP>>
    [] h = "h6" -> <<>>

\* C4: <h1>X</h1> and <h2>X</h2> give "## X", h3 to h5 give "### X", h6 gives X
\* alone, for every heading text X that is not blank; the rule's fragment has a
\* blank line before and after.
C4_HeadingLevels ==
  (IsHeadingDoc(html) /\ ~AllWhitespace(textContent(html.root))) =>
    LET h == FirstChild(html).name
        x == textContent(html.root)
    IN  /\ pc = "turndown" => govspeak = <<NL, NL>> \o Marker(h) \o x \o <<NL, NL>>
        /\ pc = "done" => result = Trim(Marker(h) \o x)

C4_Witness ==
  /\ pc = "done"
  /\ html = HeadingDoc("h5", <<"a">>)
  /\ result = <<"#", "#", "#", SP, "a">>

\* The parts of a link document.
LinkParts(input) ==
  LET cs == input.root.children[1].children
      k == CHOOSE j \in 1..Len(cs) : cs[j].name = "a"
      raw == textContent(cs[k])
  IN  [prev |-> TextOfChildren(SubSeq(cs, 1, k - 1), 1),
       next |-> TextOfChildren(SubSeq(cs, k + 1, Len(cs)), 1),
       href |-> cs[k].attrs.href,
       text |-> Trim(raw),
       lead |-> IF raw # <<>> /\ raw[1] \in Whitespace THEN <<SP>> ELSE <<>>,
       trail |-> IF raw # <<>> /\ raw[Len(raw)] \in Whitespace THEN <<SP>> ELSE <<>>]

InlineLink(t, u) == <<"[">> \o t \o <<"]", "(">> \o u \o <<")">>

\* C5 as claimed: for every href and in every sibling context, an anchor with
\* text gives "[T](U)" and an anchor without text gives neither brackets nor U.
C5_LinkInEveryContext ==
  (pc = "done" /\ IsLinkDoc(html)) =>
    LET l == LinkParts(html)
    IN  IF l.text # <<>> THEN Contains(result, InlineLink(l.text, l.href))
        ELSE /\ ~Contains(result, <<"[">>)
             /\ l.href # <<>> => ~Contains(result, l.href)

\* C5, amended: the same for an anchor whose href is not empty and whose previous
\* sibling's text does not end in "](" ; the paragraph's text is then exactly the
\* siblings' text around "[T](U)".
C5_LinkOutsideNestedLinks ==
  (IsLinkDoc(html) /\ LinkParts(html).href # <<>>
     /\ ~MatchAt(LinkParts(html).prev, Len(LinkParts(html).prev) - 1, <<"]", "(">>)) =>
    LET l == LinkParts(html)
    IN  IF l.text # <<>>
        THEN pc = "turndown" =>
               govspeak = <<NL, NL>> \o l.prev \o l.lead \o InlineLink(l.text, l.href)
                            \o l.trail \o l.next \o <<NL, NL>>
        ELSE pc = "done" =>
               /\ ~Contains(result, <<"[">>)
               /\ ~Contains(result, <<"]">>)
               /\ ~Contains(result, l.href)

C5_Witness ==
  /\ pc = "done"
  /\ html = LinkDoc(<<Txt(<<"a">>)>>, <<"u">>, <<Txt(<<"t">>)>>, <<>>)
  /\ result = <<"a", "[", "t", "]", "(", "u", ")">>

\* The 1-based position of child i among the li children of a list.
ItemNumber(cs, i) == Cardinality({j \in 1..i : cs[j].name = "li"})

PlainItem == El("li", <<Txt(<<"a">>)>>)

HeadingItem == El("li", <<El("h2", <<Txt(<<"a">>)>>)>>)

NestedList == El("ul", <<El("li", <<Txt(<<"b">>)>>)>>)

\* C6 as claimed: in the final output every li of an ol carries "k. ", k its
\* 1-based index among the li children, and every li of a ul carries "- ".
C6_PrefixInFinalOutput ==
  (pc = "done" /\ IsListDoc(html)) =>
    LET l == FirstChild(html)
    IN  \A i \in 1..Len(l.children) :
          l.children[i].name = "li" =>
            Contains(result,
                     IF l.name = "ol"
                     THEN NumberToString(ItemNumber(l.children, i)) \o <<".", SP>>
                     ELSE <<"-", SP>>)

\* C6, amended: the listItems rule gives every li that is not blank the prefix
\* "k. " in an ol, k its 1-based index among the li children alone (a blank li
\* emits nothing and is still counted), and "- " elsewhere; the final output
\* keeps the prefix of an item of text and loses the number of an item that
\* starts with a heading marker.
C6_PrefixFromListItemsRule ==
  IsListDoc(html) =>
    LET l == FirstChild(html).name
        cs == FirstChild(html).children
    IN
      \A i \in 1..Len(cs) :
        LET prefix == IF l = "ol" THEN NumberToString(ItemNumber(cs, i)) \o <<".", SP>>
                      ELSE <<"-", SP>>
        IN  /\ (cs[i] = PlainItem /\ pc \in {"turndown", "done"}) =>
                 Contains(IF pc = "done" THEN result ELSE govspeak, prefix \o <<"a">>)
            /\ (cs[i] = HeadingItem /\ pc = "turndown") =>
                 Contains(govspeak, prefix \o <<"#", "#", SP, "a">>)
            /\ (cs[i] = HeadingItem /\ pc = "done" /\ l = "ol") =>
                 /\ Contains(result, <<"#", "#", SP, "a">>)
                 /\ ~Contains(result, <<".", SP, "#">>)
            /\ (cs[i] = NestedList /\ pc \in {"turndown", "done"}) =>
                 Contains(IF pc = "done" THEN result ELSE govspeak, <<"-", SP, "b">>)

C6_Witness ==
  /\ pc = "done"
  /\ html = ListDoc("ol", <<PlainItem, El("script", <<Txt(<<"x">>)>>), PlainItem>>)
  /\ result = <<"1", ".", SP, "a", NL, "2", ".", SP, "a">>

\* C7 as claimed: postProcess collapses the line breaks, then de-lists the
\* headings, then trims.
C7_BreaksThenHeadings ==
  pc = "postProcessed" =>
    result = Trim(extractHeadingsFromLists(removeBrParagraphs(govspeak)))

\* C7, amended: postProcess de-lists the headings, then collapses the line
\* breaks, then trims.
C7_HeadingsThenBreaks ==
  pc = "postProcessed" =>
    result = Trim(removeBrParagraphs(extractHeadingsFromLists(govspeak)))

\* A text on which the two orders differ has been post-processed.
C7_Witness ==
  /\ pc = "postProcessed"
  /\ govspeak = <<"1", ".", NL, SP, SP, NL, "#", "#">>
  /\ result = <<"1", ".", NL, "#", "#">>

\* Length of the run of digits that ends just before position i.
DigitsBefore(s, i) == TrailingCount(SubSeq(s, 1, i - 1), Digit)

\* Whether a numbered heading starts at position i: a list number of one or more
\* digits, a period, a space, then two or three "#".
NumberedHeadingAt(s, i) ==
  /\ i <= Len(s)
  /\ s[i] \in Digit
  /\ DigitsBefore(s, i) = 0
  /\ HeadingInListAt(s, i + LeadingCount(SubSeq(s, i, Len(s)), Digit) - 1)

\* The de-listing the claim describes: the whole number, the period and the space
\* go, the marker stays.
RECURSIVE WholeNumberExtractFrom(_, _)
WholeNumberExtractFrom(s, i) ==
  IF i > Len(s) THEN <<>>
  ELSE IF NumberedHeadingAt(s, i)
       THEN LET d == i + LeadingCount(SubSeq(s, i, Len(s)), Digit) - 1
            IN  SubSeq(s, d + 3, d + 2 + HashesAt(s, d))
                  \o WholeNumberExtractFrom(s, d + 3 + HashesAt(s, d))
       ELSE <<s[i]>> \o WholeNumberExtractFrom(s, i + 1)

\* C8: extractHeadingsFromLists rewrites every numbered heading to its marker,
\* discarding the whole list number, and leaves no numbered heading behind.
C8_WholeNumberDiscarded ==
  pc = "extracted" =>
    /\ result = WholeNumberExtractFrom(govspeak, 1)
    /\ ~\E i \in 1..Len(result) : HeadingInListAt(result, i)

RECURSIVE JoinBlocksWithSpace(_)
JoinBlocksWithSpace(bs) ==
  IF Len(bs) = 1 THEN bs[1] ELSE bs[1] \o <<SP>> \o JoinBlocksWithSpace(Tail(bs))

\* C9 as claimed: a document of plain paragraphs, headings and links comes back
\* unchanged, trim aside.
C9_PlainTextUnchanged ==
  (pc = "done" /\ IsPlainDoc(html)) => result = Trim(html.text)

\* C9, amended: the blocks come back unescaped and unchanged, but joined by one
\* space where the document had a blank line; a document of one block comes back
\* unchanged.
C9_PlainBlocksUnescaped ==
  (pc = "done" /\ IsPlainDoc(html)) =>
    \A bs \in SeqsUpTo(PlainBlocks, MaxBlocks) \ {<<>>} :
      html.text = JoinBlocks(bs) => result = JoinBlocksWithSpace(bs)

C9_Witness ==
  /\ pc = "done"
  /\ html = Text(<<"#", "#", SP, "a">>)
  /\ result = <<"#", "#", SP, "a">>

\* The prefix the claim gives a list item.
ItemPrefix(c) ==
  IF c.parentName = "ol" THEN NumberToString(c.index + 1) \o <<".", SP>>
  ELSE <<"-", SP>>

\* Whether some line of s, the last one included, consists of the indent alone.
HasIndentOnlyLine(s) ==
  \E i \in 1..Len(s) :
    /\ MatchAt(s, i, listIndent)
    /\ i = 1 \/ s[i - 1] = NL
    /\ i + Len(listIndent) > Len(s) \/ s[i + Len(listIndent)] = NL

\* C10 as claimed: the fragment is prefix + c' + t, c' the content without its
\* leading and trailing newlines and with every inner newline followed by the
\* indent, t a newline exactly when a sibling follows and c' does not end in one;
\* so no line after the first consists of the indent alone.
C10_TrailingNewlinesStripped ==
  pc = "listItem" =>
    LET c == Indent(DropTrailing(DropLeading(govspeak, {NL}), {NL}))
        t == IF ctx.hasNext /\ ~(c # <<>> /\ c[Len(c)] = NL) THEN <<NL>> ELSE <<>>
    IN  /\ result = ItemPrefix(ctx) \o c \o t
        /\ ~HasIndentOnlyLine(SubSeq(result, Len(ItemPrefix(ctx)) + 1, Len(result)))

\* C10, amended: c' is the content without its leading newlines, its inner
\* newlines each followed by the indent, and a run of trailing newlines replaced
\* by one newline and the indent; t is a newline exactly when a sibling follows.
C10_TrailingNewlinesKeptAsOne ==
  pc = "listItem" =>
    LET body == DropLeading(govspeak, {NL})
        core == DropTrailing(body, {NL})
        tail == IF Len(core) < Len(body) THEN <<NL>> \o listIndent ELSE <<>>
        t == IF ctx.hasNext THEN <<NL>> ELSE <<>>
    IN  result = ItemPrefix(ctx) \o Indent(core) \o tail \o t

\* An item whose content ends in a newline has been converted: its fragment ends
\* in a line of the indent alone.
C10_Witness ==
  /\ pc = "listItem"
  /\ govspeak = <<"a", NL, NL>>
  /\ ctx = [parentName |-> "ol", index |-> 1, hasNext |-> TRUE]
  /\ result = <<"2", ".", SP, "a", NL, SP, SP, SP, NL>>

====
